---- MODULE Spec2Model ----
(***************************************************************************)
(* TimeFS block cache (src/src/block.rs): the write-back cache, its dirty  *)
(* tracker, the command consumer, the periodic sweep and the flush tasks.  *)
(*                                                                         *)
(* The bounded map `blocks` is a moka future::Cache built with an          *)
(* async_eviction_listener.  The listener is called for every removal      *)
(* cause: when insert() replaces a value it receives the replaced value,   *)
(* when an entry is evicted for capacity it receives the evicted value.    *)
(* insert() and an eviction hold the per-key lock of the cache from the    *)
(* change of the map until the listener has finished; get() takes no lock. *)
(* Capacity evictions are carried out by a task that is inside a cache     *)
(* operation (moka runs its pending maintenance on the caller).            *)
(***************************************************************************)
EXTENDS Integers, Sequences, FiniteSets, TLC

\* ------------------------------------------------------------- bounds
NumBlocks == 2
NumClients == 2
MaxUpdates == 2
MaxCalls == 3
MaxSeqCalls == 5
MaxSeqUpdates == 4
MaxUpdCalls == 1
MaxLiveCalls == 2
MaxLiveUpdates == 2
MaxFlushCalls == 4
MaxFlushUpdates == 2
MaxGetCalls == 3
MaxGetUpdates == 2
MaxOwnCalls == 2
MaxShutCalls == 2
MaxShutUpdates == 2
MaxStopCalls == 2
MaxStopUpdates == 2
MaxTasks == 2
MaxTime == 2
NumThreads == 2
MaxFsCalls == 2
MaxAllocCalls == 1
MaxRestartCalls == 2
MaxTableCalls == 1
MaxRestarts == 1
MaxSysTime == 1
MaxInodeId == 3
NumWriters == 2
MaxWrites == 2
BlockLen == 2
\* max_capacity and flush_interval_secs, the arguments of BlockCache::new
Capacity == 1
FlushInterval == 1

Blocks == 1..NumBlocks
Clients == 1..NumClients
Slots == 1..MaxTasks
Threads == 1..NumThreads
Writers == 1..NumWriters
\* the names of directory entries
Names == {"a", "b"}
\* the inode ids that the callers pass
InodeIds == 1..MaxInodeId
\* fuser::FUSE_ROOT_ID
FUSE_ROOT_ID == 1

\* The bytes of a block: the n-th update_block call writes the content <<n>>,
\* Vec::new() is <<>>.
Empty == <<>>
Bytes(n) == <<n>>

VARIABLES
    clock,          \* Instant::now()
    blocks,         \* BlockCache.blocks: block id -> CacheEntry, on the cached ids
    block_files,    \* the files block_<id>.bin under blocks_dir
    dirty_tracer,   \* BlockCache.dirty_tracer: block id -> Instant
    operations,     \* the crossbeam channel operation_sender -> operation_receiver
    client,         \* the foreground callers of the public operations
    task,           \* the tasks spawned by flush_block_static and periodic_flush_task
    consumer,       \* the while-let loop of background_thread
    sweep,          \* periodic_flush_task
    evicting,       \* the capacity eviction in progress, if any
    hist,           \* history of the calls, read by the properties only
    systime,        \* SystemTime::now()
    super_block,    \* TimeFS.super_block, the value inside the RwLock
    sb_lock,        \* the thread that holds super_block.write(), or 0
    superblock_bin, \* the file metadata/superblock.bin
    inodes,         \* TimeFS.inodes: inode id -> INode
    inode_files,    \* the files inode_<id>.bin under metadata/inode
    file_handles,   \* TimeFS.file_handles: handle id -> inode id
    next_fs,        \* TimeFS.next_fs
    thread,         \* the threads that call the methods of TimeFS
    fshist,         \* history of the TimeFS calls, read by the properties only
    file_data,      \* the bytes of the files that write_block_to_disk created
    tmp_paths,      \* block id -> the file that block_<id>.tmp names, or 0
    bin_paths,      \* block id -> the created file that block_<id>.bin names, or 0
    writer,         \* the tasks inside write_block_to_disk, step by step
    passed          \* block id -> the byte sequences passed to a write of the id

cachevars == <<clock, blocks, block_files, dirty_tracer, operations, client, task,
               consumer, sweep, evicting, hist>>

fsvars == <<systime, super_block, sb_lock, superblock_bin, inodes, inode_files,
            file_handles, next_fs, thread, fshist>>

iovars == <<file_data, tmp_paths, bin_paths, writer, passed>>

vars == <<cachevars, fsvars, iovars>>

\* ------------------------------------------------------------- values
CacheEntry(data, dirty, last_modified) ==
    [data |-> data, dirty |-> dirty, last_modified |-> last_modified]

NoRet == [tag |-> "none", bytes |-> Empty, flag |-> FALSE]
RetOk == [tag |-> "ok", bytes |-> Empty, flag |-> FALSE]
RetErr == [tag |-> "err", bytes |-> Empty, flag |-> FALSE]
RetBytes(d) == [tag |-> "bytes", bytes |-> d, flag |-> FALSE]
RetBool(f) == [tag |-> "bool", bytes |-> Empty, flag |-> f]

IdleClient ==
    [pc |-> "idle", op |-> "none", block |-> 0, data |-> Empty, ts |-> 0,
     old |-> Empty, slot |-> 0, wait |-> FALSE, calls |-> 0, ret |-> NoRet]

FreeTask ==
    [pc |-> "free", kind |-> "none", rt |-> "none", block |-> 0, data |-> Empty,
     e |-> <<>>, old |-> Empty, waited |-> FALSE]

NoEvict == [host |-> <<"none", 0>>, block |-> 0, data |-> Empty, dirty |-> FALSE]

MarkDirty(b, t) == [kind |-> "MarkDirty", block |-> b, ts |-> t]
ShutDown == [kind |-> "ShutDown", block |-> 0, ts |-> 0]

\* ------------------------------------------------------------- the map and the files
\* Cache::get
CacheGet(b) == IF b \in DOMAIN blocks THEN <<blocks[b]>> ELSE <<>>

\* an insert that drops the entries of the other ids
CacheInsert_Only(b, e) == [k \in {b} |-> e]

\* the map after Cache::insert(b, e)
CacheInsert(b, e) ==
    [k \in DOMAIN blocks \cup {b} |-> IF k = b THEN e ELSE blocks[k]]

\* the map after the removal of b
CacheRemove(b) == [k \in DOMAIN blocks \ {b} |-> blocks[k]]

\* write_block_to_disk: the temporary file is renamed over block_<id>.bin
write_block_to_disk(b, data) ==
    [k \in DOMAIN block_files \cup {b} |-> IF k = b THEN data ELSE block_files[k]]

\* tokio::fs::read of get_block, with NotFound read as the empty block
ReadFile(b) == IF b \in DOMAIN block_files THEN block_files[b] ELSE Empty

TrackerInsert(b, t) ==
    [k \in DOMAIN dirty_tracer \cup {b} |-> IF k = b THEN t ELSE dirty_tracer[k]]

TrackerRemove(S) == [k \in DOMAIN dirty_tracer \ S |-> dirty_tracer[k]]

\* the per-key lock of the cache is held by an insert whose listener has not
\* finished and by an eviction whose listener has not finished
KeyLocked(b) ==
    \/ evicting.block = b
    \/ \E c \in Clients : client[c].block = b /\ client[c].pc \in {"upd_notify", "get_notify"}
    \/ \E s \in Slots : task[s].block = b /\ task[s].pc = "notify"

\* a process that carries out an eviction does nothing else until its listener returns
Hosting(h) == evicting.host = h

FreeSlots == {s \in Slots : task[s].pc = "free"}
FirstFree == CHOOSE s \in FreeSlots : \A r \in FreeSlots : s <= r

Spawn(s, kind, rt, b, data, waited) ==
    [task EXCEPT ![s] = [pc |-> "write", kind |-> kind, rt |-> rt, block |-> b,
                         data |-> data, e |-> <<>>, old |-> Empty, waited |-> waited]]

\* ------------------------------------------------------------- the file system values
\* fuser::FileAttr; crtime stands for atime, mtime, ctime and crtime, which the
\* code always sets to the same instant
FileAttr(i, size, nblocks, time, kind, nlink) ==
    [ino |-> i, size |-> size, blocks |-> nblocks, crtime |-> time, kind |-> kind,
     nlink |-> nlink]

\* FileAttrBuilder::default()
FileAttrBuilder == FileAttr(0, 0, 0, systime, "RegularFile", 1)

\* FileAttrBuilder::ino
ino(builder, i) == [builder EXCEPT !.ino = i]

\* FileAttrBuilder::with_directory
with_directory(builder) == [builder EXCEPT !.kind = "Directory", !.nlink = 2]

\* FileAttrBuilder::build
build(builder) ==
    [ino |-> builder.ino, size |-> builder.ino, blocks |-> builder.ino,
     crtime |-> builder.crtime, kind |-> builder.kind, nlink |-> builder.nlink]

\* INodeType::empty_file and INodeType::empty_directory
empty_file == [kind |-> "File", entries |-> [n \in {} |-> 0], blocks |-> <<>>, size |-> 0]
empty_directory == [kind |-> "Directory", entries |-> [n \in {} |-> 0], blocks |-> <<>>, size |-> 0]

\* INode::new
INode(id, parent, data, attr) == [id |-> id, parent |-> parent, data |-> data, attr |-> attr]

\* INode::with_directory_entries
with_directory_entries(id, parent, attr, entries) ==
    INode(id, parent, [empty_directory EXCEPT !.entries = entries], attr)

\* TimeFS::create_root_inode at the instant now
create_root_inode(now) ==
    INode(FUSE_ROOT_ID, FUSE_ROOT_ID, empty_directory,
          FileAttr(FUSE_ROOT_ID, 0, 0, now, "Directory", 2))

\* SuperBlock::new
SuperBlockNew ==
    [inode_count |-> FUSE_ROOT_ID, next_inode_id |-> FUSE_ROOT_ID + 1,
     next_block_id |-> 1, root_dir_inode |-> FUSE_ROOT_ID]

\* the results of the TimeFS methods
FsNoRet == [tag |-> "none", id |-> 0, name |-> "", node |-> <<>>]
FsId(i) == [tag |-> "id", id |-> i, name |-> "", node |-> <<>>]
FsNode(n) == [tag |-> "inode", id |-> n.id, name |-> "", node |-> <<n>>]
NotFound(i) == [tag |-> "NotFound", id |-> i, name |-> "", node |-> <<>>]
NameNotFound(n) == [tag |-> "NameNotFound", id |-> 0, name |-> n, node |-> <<>>]
NotDirectory(i) == [tag |-> "NotDirectory", id |-> i, name |-> "", node |-> <<>>]
NameExist(n) == [tag |-> "NameExist", id |-> 0, name |-> n, node |-> <<>>]
\* Ok((attr, id)) of create_file
FsCreated(attr, i) == [tag |-> "created", id |-> i, name |-> "", node |-> <<attr>>]

IdleThread ==
    [pc |-> "idle", op |-> "none", arg |-> 0, name |-> "", kind |-> "none", id |-> 0,
     guard |-> 0, calls |-> 0, ret |-> FsNoRet]

\* INode::get_child_id
get_child_id(node, name) ==
    IF node.data.kind = "File" THEN NotDirectory(node.id)
    ELSE IF name \in DOMAIN node.data.entries THEN FsId(node.data.entries[name])
    ELSE NameNotFound(name)

\* DashMap::insert on inodes and on file_handles
Insert(map, k, v) == [x \in DOMAIN map \cup {k} |-> IF x = k THEN v ELSE map[x]]

\* a thread inside create_file holds the RefMut of get_inode_mut(parent)
Guarded(i) == \E t \in Threads : thread[t].guard = i

NoHistory ==
    [inode_ids |-> <<>>, block_ids |-> <<>>, waited |-> FALSE, restarts |-> 0,
     builder |-> <<>>,
     built |-> <<>>, allocated |-> <<>>, create |-> <<>>]

\* the state after TimeFS::new on an empty storage path; calls bounds the calls
\* of each thread
FreshStore(calls) ==
    /\ systime = 0
    /\ super_block = SuperBlockNew
    /\ sb_lock = 0
    /\ superblock_bin = SuperBlockNew
    /\ inodes = [i \in {FUSE_ROOT_ID} |-> create_root_inode(0)]
    /\ inode_files = [i \in {FUSE_ROOT_ID} |-> create_root_inode(0)]
    /\ file_handles = [h \in {} |-> 0]
    /\ next_fs = 1
    /\ thread = [t \in Threads |-> [IdleThread EXCEPT !.calls = calls]]
    /\ fshist = NoHistory

\* ------------------------------------------------------------- files, step by step
\* the bytes of the n-th write_block_to_disk call: BlockLen bytes n
Block(n) == [i \in 1..BlockLen |-> n]

IdleWriter == [pc |-> "idle", block |-> 0, data |-> <<>>, fd |-> 0, off |-> 0, ret |-> NoRet]

\* no task is inside write_block_to_disk and no file was created
NoWrites ==
    /\ file_data = <<>>
    /\ tmp_paths = [b \in Blocks |-> 0]
    /\ bin_paths = [b \in Blocks |-> 0]
    /\ writer = [w \in Writers |-> IdleWriter]
    /\ passed = [b \in Blocks |-> {}]

\* the bytes of a file after write(2) of one byte at offset off: a hole is zeros
WriteAt(bytes, off, byte) ==
    [i \in 1..(IF off + 1 > Len(bytes) THEN off + 1 ELSE Len(bytes)) |->
        IF i = off + 1 THEN byte ELSE IF i <= Len(bytes) THEN bytes[i] ELSE 0]

\* block_files once the created files hold data and block_<id>.bin names them
BinFiles(data, bins) ==
    [b \in DOMAIN block_files \cup {k \in Blocks : bins[k] # 0} |->
        IF bins[b] # 0 THEN data[bins[b]] ELSE block_files[b]]

\* ------------------------------------------------------------- Init
\* the state after BlockCache::new on an empty directory; calls and updates bound
\* the calls of each caller and the update_block calls of a run
NewCache(calls, updates) ==
    /\ clock = 0
    /\ blocks = [k \in {} |-> CacheEntry(Empty, FALSE, 0)]
    /\ block_files = [k \in {} |-> Empty]
    /\ dirty_tracer = [k \in {} |-> 0]
    /\ operations = <<>>
    /\ client = [c \in Clients |-> [IdleClient EXCEPT !.calls = calls]]
    /\ task = [s \in Slots |-> FreeTask]
    /\ consumer = [pc |-> "recv", todo |-> {}, slot |-> 0]
    /\ sweep = [pc |-> "tick", expired |-> {}]
    /\ evicting = NoEvict
    /\ hist = [updates |-> 0,
               quota |-> updates,
               last |-> [b \in Blocks |-> 0],
               lastTs |-> [b \in Blocks |-> 0],
               returned |-> [b \in Blocks |-> FALSE],
               evicted |-> [b \in Blocks |-> FALSE],
               sdLast |-> [b \in Blocks |-> 0],
               sdCalled |-> FALSE,
               plain |-> TRUE,
               failed |-> [b \in Blocks |-> <<>>]]

\* the block cache of a file system that no thread calls
InitWith(calls, updates) == NewCache(calls, updates) /\ FreshStore(0) /\ NoWrites

Init == InitWith(MaxCalls, MaxUpdates)

\* ------------------------------------------------------------- update_block
\* a call of a public operation starts: the caller is between two calls
CanCall(c) ==
    /\ client[c].pc = "idle"
    /\ client[c].calls > 0
    /\ ~Hosting(<<"client", c>>)

\* update_block, line 150: let now = Instant::now()
UpdateCall(c, b) ==
    /\ CanCall(c)
    /\ hist.updates < hist.quota
    /\ client' = [client EXCEPT ![c] =
            [@ EXCEPT !.pc = "upd_insert", !.op = "update", !.block = b,
                      !.data = Bytes(hist.updates + 1), !.ts = clock,
                      !.calls = @ - 1, !.ret = NoRet]]
    /\ hist' = [hist EXCEPT !.updates = @ + 1, !.last[b] = hist.updates + 1,
                            !.lastTs[b] = clock, !.returned[b] = FALSE]
    /\ UNCHANGED <<fsvars, iovars>>
    /\ UNCHANGED <<clock, blocks, block_files, dirty_tracer, operations, task,
                   consumer, sweep, evicting>>

\* update_block, lines 152-156: self.blocks.insert(block_id, CacheEntry {dirty: true}),
\* up to the change of the map
UpdateInsert(c) ==
    LET b == client[c].block IN
    /\ client[c].pc = "upd_insert"
    /\ ~KeyLocked(b)
    /\ blocks' = CacheInsert(b, CacheEntry(client[c].data, TRUE, client[c].ts))
    /\ client' = [client EXCEPT ![c] =
            IF b \in DOMAIN blocks
            THEN [@ EXCEPT !.pc = "upd_notify", !.old = blocks[b].data]
            ELSE [@ EXCEPT !.pc = "upd_send"]]
    /\ hist' = [hist EXCEPT !.evicted[b] = FALSE]
    /\ UNCHANGED <<fsvars, iovars>>
    /\ UNCHANGED <<clock, block_files, dirty_tracer, operations, task, consumer,
                   sweep, evicting>>

\* the rest of that insert: the listener of lines 74-80 writes the replaced value
UpdateNotify(c) ==
    /\ client[c].pc = "upd_notify"
    /\ block_files' = write_block_to_disk(client[c].block, client[c].old)
    /\ client' = [client EXCEPT ![c] = [@ EXCEPT !.pc = "upd_send", !.old = Empty]]
    /\ UNCHANGED <<fsvars, iovars>>
    /\ UNCHANGED <<clock, blocks, dirty_tracer, operations, task, consumer, sweep,
                   evicting, hist>>

\* update_block, lines 158-161: operation_sender.send(MarkDirty(block_id, now));
\* the send fails once the receiver is dropped
UpdateSend(c) ==
    LET b == client[c].block IN
    /\ client[c].pc = "upd_send"
    /\ ~Hosting(<<"client", c>>)
    /\ IF consumer.pc = "exited"
       THEN /\ operations' = operations
            /\ client' = [client EXCEPT ![c] = [@ EXCEPT !.pc = "idle", !.ret = RetErr]]
       ELSE /\ operations' = Append(operations, MarkDirty(b, client[c].ts))
            /\ client' = [client EXCEPT ![c] = [@ EXCEPT !.pc = "idle", !.ret = RetOk]]
    /\ hist' = [hist EXCEPT !.returned[b] =
                    IF client[c].data = Bytes(hist.last[b]) THEN TRUE ELSE @]
    /\ UNCHANGED <<fsvars, iovars>>
    /\ UNCHANGED <<clock, blocks, block_files, dirty_tracer, task, consumer, sweep,
                   evicting>>

\* ------------------------------------------------------------- get_block
\* get_block, lines 121-123: a hit returns the cached bytes; a miss goes on to the file
GetCall(c, b) ==
    /\ CanCall(c)
    /\ client' = [client EXCEPT ![c] =
            IF b \in DOMAIN blocks
            THEN [@ EXCEPT !.op = "get", !.block = b, !.calls = @ - 1,
                           !.ret = RetBytes(blocks[b].data)]
            ELSE [@ EXCEPT !.pc = "get_read", !.op = "get", !.block = b,
                           !.calls = @ - 1, !.ret = NoRet]]
    /\ UNCHANGED <<fsvars, iovars>>
    /\ UNCHANGED <<clock, blocks, block_files, dirty_tracer, operations, task,
                   consumer, sweep, evicting, hist>>

\* get_block, lines 125-126 and 135-137: tokio::fs::read(&path)
GetRead(c) ==
    /\ client[c].pc = "get_read"
    /\ ~Hosting(<<"client", c>>)
    /\ client' = [client EXCEPT ![c] =
            [@ EXCEPT !.pc = "get_insert", !.data = ReadFile(client[c].block)]]
    /\ UNCHANGED <<fsvars, iovars>>
    /\ UNCHANGED <<clock, blocks, block_files, dirty_tracer, operations, task,
                   consumer, sweep, evicting, hist>>

\* get_block, lines 135 and 144: the read fails for a reason other than NotFound
GetReadFail(c) ==
    /\ client[c].pc = "get_read"
    /\ ~Hosting(<<"client", c>>)
    /\ client' = [client EXCEPT ![c] = [@ EXCEPT !.pc = "idle", !.ret = RetErr]]
    /\ UNCHANGED <<fsvars, iovars>>
    /\ UNCHANGED <<clock, blocks, block_files, dirty_tracer, operations, task,
                   consumer, sweep, evicting, hist>>

\* the insert of get_block with the entry marked dirty
GetInsert_Dirty(c) ==
    LET b == client[c].block IN
    /\ client[c].pc = "get_insert"
    /\ ~KeyLocked(b)
    /\ blocks' = CacheInsert(b, CacheEntry(client[c].data, TRUE, clock))
    /\ client' = [client EXCEPT ![c] =
            IF b \in DOMAIN blocks
            THEN [@ EXCEPT !.pc = "get_notify", !.old = blocks[b].data]
            ELSE [@ EXCEPT !.pc = "idle", !.ret = RetBytes(client[c].data),
                           !.data = Empty]]
    /\ UNCHANGED <<fsvars, iovars>>
    /\ UNCHANGED <<clock, block_files, dirty_tracer, operations, task, consumer,
                   sweep, evicting, hist>>

\* get_block, lines 128-132 and 138-142: insert of the clean entry, up to the change
\* of the map
GetInsert(c) ==
    LET b == client[c].block IN
    /\ client[c].pc = "get_insert"
    /\ ~KeyLocked(b)
    /\ blocks' = CacheInsert(b, CacheEntry(client[c].data, FALSE, clock))
    /\ client' = [client EXCEPT ![c] =
            IF b \in DOMAIN blocks
            THEN [@ EXCEPT !.pc = "get_notify", !.old = blocks[b].data]
            ELSE [@ EXCEPT !.pc = "idle", !.ret = RetBytes(client[c].data),
                           !.data = Empty]]
    /\ UNCHANGED <<fsvars, iovars>>
    /\ UNCHANGED <<clock, block_files, dirty_tracer, operations, task, consumer,
                   sweep, evicting, hist>>

\* the rest of that insert: the listener writes the replaced value; lines 133, 143
GetNotify(c) ==
    /\ client[c].pc = "get_notify"
    /\ block_files' = write_block_to_disk(client[c].block, client[c].old)
    /\ client' = [client EXCEPT ![c] =
            [@ EXCEPT !.pc = "idle", !.ret = RetBytes(client[c].data),
                      !.data = Empty, !.old = Empty]]
    /\ UNCHANGED <<fsvars, iovars>>
    /\ UNCHANGED <<clock, blocks, dirty_tracer, operations, task, consumer, sweep,
                   evicting, hist>>

\* ------------------------------------------------------------- flush_block
\* flush_block_static, lines 251-255 and 277-283: the entry is read, and a task
\* holding it is spawned when it is dirty
Dirty(b) == b \in DOMAIN blocks /\ blocks[b].dirty

\* flush_block_static without the test of entry.dirty: every entry found is written
FlushCall_AnyEntry(c, b, wait) ==
    /\ CanCall(c)
    /\ IF b \in DOMAIN blocks
       THEN /\ FreeSlots # {}
            /\ task' = Spawn(FirstFree, "flush", "fg", b, blocks[b].data, wait)
            /\ client' = [client EXCEPT ![c] =
                    IF wait
                    THEN [@ EXCEPT !.pc = "flush_wait", !.op = "flush", !.block = b,
                                   !.wait = wait, !.slot = FirstFree,
                                   !.calls = @ - 1, !.ret = NoRet]
                    ELSE [@ EXCEPT !.op = "flush", !.block = b, !.wait = wait,
                                   !.calls = @ - 1, !.ret = RetBool(TRUE)]]
       ELSE /\ task' = task
            /\ client' = [client EXCEPT ![c] =
                    [@ EXCEPT !.op = "flush", !.block = b, !.wait = wait,
                              !.calls = @ - 1, !.ret = RetBool(FALSE)]]
    /\ hist' = [hist EXCEPT !.plain = @ /\ ~wait]
    /\ UNCHANGED <<fsvars, iovars>>
    /\ UNCHANGED <<clock, blocks, block_files, dirty_tracer, operations, consumer,
                   sweep, evicting>>

\* flush_block -> flush_block_static, called by a client
FlushCall(c, b, wait) ==
    /\ CanCall(c)
    /\ IF Dirty(b)
       THEN /\ FreeSlots # {}
            /\ task' = Spawn(FirstFree, "flush", "fg", b, blocks[b].data, wait)
            /\ client' = [client EXCEPT ![c] =
                    IF wait
                    THEN [@ EXCEPT !.pc = "flush_wait", !.op = "flush", !.block = b,
                                   !.wait = wait, !.slot = FirstFree,
                                   !.calls = @ - 1, !.ret = NoRet]
                    ELSE [@ EXCEPT !.op = "flush", !.block = b, !.wait = wait,
                                   !.calls = @ - 1, !.ret = RetBool(TRUE)]]
       ELSE /\ task' = task
            /\ client' = [client EXCEPT ![c] =
                    [@ EXCEPT !.op = "flush", !.block = b, !.wait = wait,
                              !.calls = @ - 1, !.ret = RetBool(FALSE)]]
    /\ hist' = [hist EXCEPT !.plain = @ /\ ~wait]
    /\ UNCHANGED <<fsvars, iovars>>
    /\ UNCHANGED <<clock, blocks, block_files, dirty_tracer, operations, consumer,
                   sweep, evicting>>

\* flush_block_static, lines 268-277: handle.await, then Ok(true); the arm Ok(_)
\* takes the Err returned by the task as well as its Ok
FlushJoin(c) ==
    LET s == client[c].slot IN
    /\ client[c].pc = "flush_wait"
    /\ ~Hosting(<<"client", c>>)
    /\ task[s].pc \in {"done", "failed"}
    /\ task' = [task EXCEPT ![s] = FreeTask]
    /\ client' = [client EXCEPT ![c] =
            [@ EXCEPT !.pc = "idle", !.slot = 0, !.ret = RetBool(TRUE)]]
    /\ UNCHANGED <<fsvars, iovars>>
    /\ UNCHANGED <<clock, blocks, block_files, dirty_tracer, operations, consumer,
                   sweep, evicting, hist>>

\* ------------------------------------------------------------- the spawned tasks
\* the end of a spawned task whose JoinHandle never resolves
Finished_Lost(t) == FreeTask

\* the end of a spawned task: its JoinHandle is awaited or was dropped
Finished(t) == IF t.waited THEN [t EXCEPT !.pc = "done"] ELSE FreeTask

\* what follows the clearing of the dirty flag: line 264 in a task of
\* flush_block_static, nothing in a task of periodic_flush_task
AfterClear(t) == IF t.kind = "flush" THEN [t EXCEPT !.pc = "untrack"] ELSE Finished(t)

\* lines 256-258 and 323-325: write_block_to_disk(&path, &entry.data)
TaskWrite(s) ==
    /\ task[s].pc = "write"
    /\ block_files' = write_block_to_disk(task[s].block, task[s].data)
    /\ task' = [task EXCEPT ![s] = [@ EXCEPT !.pc = "get"]]
    /\ UNCHANGED <<fsvars, iovars>>
    /\ UNCHANGED <<clock, blocks, dirty_tracer, operations, client, consumer, sweep,
                   evicting, hist>>

\* lines 256-258 and 323-325 when write_block_to_disk fails (create, write, sync or
\* rename of the temporary file): the file of the block is as before; a task of
\* flush_block_static returns Err, a task of periodic_flush_task panics
TaskWriteFail(s) ==
    /\ task[s].pc = "write"
    /\ task' = [task EXCEPT ![s] =
            IF task[s].waited THEN [@ EXCEPT !.pc = "failed"] ELSE FreeTask]
    /\ hist' = [hist EXCEPT !.failed[task[s].block] = <<task[s].data>>]
    /\ UNCHANGED <<fsvars, iovars>>
    /\ UNCHANGED <<clock, blocks, block_files, dirty_tracer, operations, client,
                   consumer, sweep, evicting>>

\* lines 259 and 326: if let Some(mut entry) = blocks.get(&block_id).await
TaskGet(s) ==
    LET t == task[s] IN
    /\ t.pc = "get"
    /\ task' = [task EXCEPT ![s] =
            IF t.block \in DOMAIN blocks
            THEN [t EXCEPT !.pc = "insert", !.e = CacheGet(t.block)]
            ELSE AfterClear(t)]
    /\ UNCHANGED <<fsvars, iovars>>
    /\ UNCHANGED <<clock, blocks, block_files, dirty_tracer, operations, client,
                   consumer, sweep, evicting, hist>>

\* lines 260-261 and 327-328: entry.dirty = false; blocks.insert(block_id, entry),
\* up to the change of the map
TaskInsert(s) ==
    LET t == task[s]
        b == t.block IN
    /\ t.pc = "insert"
    /\ ~Hosting(<<"task", s>>)
    /\ ~KeyLocked(b)
    /\ blocks' = CacheInsert(b, [t.e[1] EXCEPT !.dirty = FALSE])
    /\ task' = [task EXCEPT ![s] =
            IF b \in DOMAIN blocks
            THEN [t EXCEPT !.pc = "notify", !.e = <<>>, !.old = blocks[b].data]
            ELSE AfterClear([t EXCEPT !.e = <<>>])]
    /\ UNCHANGED <<fsvars, iovars>>
    /\ UNCHANGED <<clock, block_files, dirty_tracer, operations, client, consumer,
                   sweep, evicting, hist>>

\* the rest of that insert: the listener writes the replaced value
TaskNotify(s) ==
    LET t == task[s] IN
    /\ t.pc = "notify"
    /\ block_files' = write_block_to_disk(t.block, t.old)
    /\ task' = [task EXCEPT ![s] = AfterClear([t EXCEPT !.old = Empty])]
    /\ UNCHANGED <<fsvars, iovars>>
    /\ UNCHANGED <<clock, blocks, dirty_tracer, operations, client, consumer, sweep,
                   evicting, hist>>

\* line 264: dirty_blocks.remove(&block_id)
TaskUntrack(s) ==
    LET t == task[s] IN
    /\ t.pc = "untrack"
    /\ ~Hosting(<<"task", s>>)
    /\ dirty_tracer' = TrackerRemove({t.block})
    /\ task' = [task EXCEPT ![s] = Finished(t)]
    /\ UNCHANGED <<fsvars, iovars>>
    /\ UNCHANGED <<clock, blocks, block_files, operations, client, consumer, sweep,
                   evicting, hist>>

\* ------------------------------------------------------------- shutdown
\* shutdown, lines 363-364: operation_sender.send(ShutDown)?
ShutdownCall(c) ==
    /\ CanCall(c)
    /\ IF consumer.pc = "exited"
       THEN /\ operations' = operations
            /\ client' = [client EXCEPT ![c] =
                    [@ EXCEPT !.op = "shutdown", !.calls = @ - 1, !.ret = RetErr]]
       ELSE /\ operations' = Append(operations, ShutDown)
            /\ client' = [client EXCEPT ![c] =
                    [@ EXCEPT !.pc = "sd_join", !.op = "shutdown", !.calls = @ - 1,
                              !.ret = NoRet]]
    /\ hist' = IF hist.sdCalled THEN hist
               ELSE [hist EXCEPT !.sdCalled = TRUE, !.plain = FALSE,
                        !.sdLast = [b \in Blocks |->
                                      IF hist.returned[b] THEN hist.last[b] ELSE 0]]
    /\ UNCHANGED <<fsvars, iovars>>
    /\ UNCHANGED <<clock, blocks, block_files, dirty_tracer, task, consumer, sweep,
                   evicting>>

\* shutdown, lines 366-374: the handle is taken under the mutex and joined; a caller
\* that finds it taken got the mutex after the join of the first
ShutdownJoin(c) ==
    /\ client[c].pc = "sd_join"
    /\ consumer.pc = "exited"
    /\ client' = [client EXCEPT ![c] = [@ EXCEPT !.pc = "idle", !.ret = RetOk]]
    /\ UNCHANGED <<fsvars, iovars>>
    /\ UNCHANGED <<clock, blocks, block_files, dirty_tracer, operations, task,
                   consumer, sweep, evicting, hist>>

\* ------------------------------------------------------------- background_thread
\* lines 191-211: one command is received and handled.  MarkDirty records the id,
\* Flush calls flush_block_static without waiting, ShutDown collects the tracked ids.
ConsumerRecv ==
    LET op == Head(operations) IN
    /\ consumer.pc = "recv"
    /\ operations # <<>>
    /\ operations' = Tail(operations)
    /\ CASE op.kind = "MarkDirty" ->
              /\ dirty_tracer' = TrackerInsert(op.block, op.ts)
              /\ UNCHANGED <<task, consumer>>
         [] op.kind = "Flush" ->
              /\ Dirty(op.block) => FreeSlots # {}
              /\ task' = IF Dirty(op.block)
                         THEN Spawn(FirstFree, "flush", "bg", op.block,
                                    blocks[op.block].data, FALSE)
                         ELSE task
              /\ UNCHANGED <<dirty_tracer, consumer>>
         [] op.kind = "ShutDown" ->
              /\ consumer' = [consumer EXCEPT !.pc = "drain", !.todo = DOMAIN dirty_tracer]
              /\ UNCHANGED <<dirty_tracer, task>>
    /\ UNCHANGED <<fsvars, iovars>>
    /\ UNCHANGED <<clock, blocks, block_files, client, sweep, evicting, hist>>

\* the drain with the flush of the Flush arm: started and not awaited
ConsumerDrain_NoWait(b) ==
    /\ consumer.pc = "drain"
    /\ b \in consumer.todo
    /\ IF Dirty(b)
       THEN /\ FreeSlots # {}
            /\ task' = Spawn(FirstFree, "flush", "bg", b, blocks[b].data, FALSE)
       ELSE task' = task
    /\ consumer' = [consumer EXCEPT !.todo = @ \ {b}]
    /\ UNCHANGED <<fsvars, iovars>>
    /\ UNCHANGED <<clock, blocks, block_files, dirty_tracer, operations, client,
                   sweep, evicting, hist>>

\* lines 212-219: flush_block_static(block_id, ..., true) for the next collected id
ConsumerDrain(b) ==
    /\ consumer.pc = "drain"
    /\ b \in consumer.todo
    /\ IF Dirty(b)
       THEN /\ FreeSlots # {}
            /\ task' = Spawn(FirstFree, "flush", "bg", b, blocks[b].data, TRUE)
            /\ consumer' = [consumer EXCEPT !.pc = "drain_wait", !.slot = FirstFree,
                                            !.todo = @ \ {b}]
       ELSE /\ task' = task
            /\ consumer' = [consumer EXCEPT !.todo = @ \ {b}]
    /\ UNCHANGED <<fsvars, iovars>>
    /\ UNCHANGED <<clock, blocks, block_files, dirty_tracer, operations, client,
                   sweep, evicting, hist>>

\* lines 268-277 in the drain: handle.await
ConsumerJoin ==
    LET s == consumer.slot IN
    /\ consumer.pc = "drain_wait"
    /\ task[s].pc \in {"done", "failed"}
    /\ task' = [task EXCEPT ![s] = FreeTask]
    /\ consumer' = [consumer EXCEPT !.pc = "drain", !.slot = 0]
    /\ UNCHANGED <<fsvars, iovars>>
    /\ UNCHANGED <<clock, blocks, block_files, dirty_tracer, operations, client,
                   sweep, evicting, hist>>

\* the end of the drain without the break: the loop goes on receiving
ConsumerExit_NoBreak ==
    /\ consumer.pc = "drain"
    /\ consumer.todo = {}
    /\ consumer' = [consumer EXCEPT !.pc = "recv"]
    /\ UNCHANGED <<fsvars, iovars>>
    /\ UNCHANGED <<clock, blocks, block_files, dirty_tracer, operations, client,
                   task, sweep, evicting, hist>>

\* lines 222-227: break; block_on returns and the runtime of the background thread
\* is dropped with the tasks still on it; the receiver is dropped with its commands
ConsumerExit ==
    /\ consumer.pc = "drain"
    /\ consumer.todo = {}
    /\ consumer' = [consumer EXCEPT !.pc = "exited"]
    /\ operations' = <<>>
    /\ task' = [s \in Slots |-> IF task[s].rt = "bg" THEN FreeTask ELSE task[s]]
    /\ sweep' = [pc |-> "stopped", expired |-> {}]
    /\ evicting' = IF evicting.host[1] = "task" /\ task[evicting.host[2]].rt = "bg"
                   THEN NoEvict ELSE evicting
    /\ UNCHANGED <<fsvars, iovars>>
    /\ UNCHANGED <<clock, blocks, block_files, dirty_tracer, client, hist>>

\* ------------------------------------------------------------- periodic_flush_task
\* the ids whose dirty time is at or before now - flush_interval, lines 298-305
Expired == {b \in DOMAIN dirty_tracer : dirty_tracer[b] <= clock - FlushInterval}

\* lines 296-305: a tick that finds expired ids collects them
SweepTick ==
    /\ sweep.pc = "tick"
    /\ Expired # {}
    /\ sweep' = [pc |-> "remove", expired |-> Expired]
    /\ UNCHANGED <<fsvars, iovars>>
    /\ UNCHANGED <<clock, blocks, block_files, dirty_tracer, operations, client,
                   task, consumer, evicting, hist>>

\* lines 307-309: the collected ids are removed from the tracker
SweepRemove ==
    /\ sweep.pc = "remove"
    /\ dirty_tracer' = TrackerRemove(sweep.expired)
    /\ sweep' = [sweep EXCEPT !.pc = "scan"]
    /\ UNCHANGED <<fsvars, iovars>>
    /\ UNCHANGED <<clock, blocks, block_files, operations, client, task, consumer,
                   evicting, hist>>

\* lines 314-332: the entry of the next collected id is read, and a task holding its
\* bytes is spawned when it is dirty
SweepScan(b) ==
    LET rest == sweep.expired \ {b} IN
    /\ sweep.pc = "scan"
    /\ b \in sweep.expired
    /\ IF Dirty(b)
       THEN /\ FreeSlots # {}
            /\ task' = Spawn(FirstFree, "sweep", "bg", b, blocks[b].data, FALSE)
       ELSE task' = task
    /\ sweep' = [pc |-> IF rest = {} THEN "tick" ELSE "scan", expired |-> rest]
    /\ UNCHANGED <<fsvars, iovars>>
    /\ UNCHANGED <<clock, blocks, block_files, dirty_tracer, operations, client,
                   consumer, evicting, hist>>

\* ------------------------------------------------------------- capacity eviction
\* the processes that have just been inside a cache operation
CanHost(h) ==
    \/ /\ h[1] = "client"
       /\ h[2] \in Clients
       /\ \/ client[h[2]].pc \in {"upd_send", "get_read", "flush_wait"}
          \/ client[h[2]].pc = "idle" /\ client[h[2]].op \in {"get", "flush"}
    \/ /\ h[1] = "task"
       /\ h[2] \in Slots
       /\ task[h[2]].pc \in {"insert", "untrack"}

Hosts == ({"client"} \X Clients) \cup ({"task"} \X Slots)

\* the map holds more than max_capacity entries: one is removed from it
EvictRemove(h, b) ==
    /\ evicting = NoEvict
    /\ CanHost(h)
    /\ b \in DOMAIN blocks
    /\ Cardinality(DOMAIN blocks) > Capacity
    /\ ~KeyLocked(b)
    /\ blocks' = CacheRemove(b)
    /\ evicting' = [host |-> h, block |-> b, data |-> blocks[b].data,
                    dirty |-> blocks[b].dirty]
    /\ hist' = [hist EXCEPT !.evicted[b] = TRUE]
    /\ UNCHANGED <<fsvars, iovars>>
    /\ UNCHANGED <<clock, block_files, dirty_tracer, operations, client, task,
                   consumer, sweep>>

\* lines 74-80: the listener writes the bytes of the removed entry
EvictNotify ==
    /\ evicting # NoEvict
    /\ block_files' = write_block_to_disk(evicting.block, evicting.data)
    /\ evicting' = NoEvict
    /\ UNCHANGED <<fsvars, iovars>>
    /\ UNCHANGED <<clock, blocks, dirty_tracer, operations, client, task, consumer,
                   sweep, hist>>

\* ------------------------------------------------------------- time
Tick ==
    /\ clock < MaxTime
    /\ clock' = clock + 1
    /\ UNCHANGED <<fsvars, iovars>>
    /\ UNCHANGED <<blocks, block_files, dirty_tracer, operations, client, task,
                   consumer, sweep, evicting, hist>>

\* ------------------------------------------------------------- TimeFS
\* a call of a method of TimeFS starts: the thread is between two calls
FsCanCall(t) == thread[t].pc = "idle" /\ thread[t].calls > 0

Entered(t, pc, op, arg, name, kind) ==
    [thread EXCEPT ![t] = [@ EXCEPT !.pc = pc, !.op = op, !.arg = arg, !.name = name,
                                    !.kind = kind, !.id = 0, !.calls = @ - 1,
                                    !.ret = FsNoRet]]

Left(t, ret) ==
    [thread EXCEPT ![t] = [IdleThread EXCEPT !.op = thread[t].op,
                                             !.calls = thread[t].calls, !.ret = ret]]

\* TimeFS::get_next_inode_id is called
GetNextInodeIdCall(t) ==
    /\ FsCanCall(t)
    /\ thread' = Entered(t, "lock", "get_next_inode_id", 0, "", "none")
    /\ UNCHANGED <<systime, super_block, sb_lock, superblock_bin, inodes, inode_files,
                   file_handles, next_fs, fshist>>
    /\ UNCHANGED <<cachevars, iovars>>

\* TimeFS::get_next_block_id is called
GetNextBlockIdCall(t) ==
    /\ FsCanCall(t)
    /\ thread' = Entered(t, "lock", "get_next_block_id", 0, "", "none")
    /\ UNCHANGED <<systime, super_block, sb_lock, superblock_bin, inodes, inode_files,
                   file_handles, next_fs, fshist>>
    /\ UNCHANGED <<cachevars, iovars>>

\* TimeFS::alloc_inode(parent, kind) is called
AllocInodeCall(t, parent, kind) ==
    /\ FsCanCall(t)
    /\ thread' = Entered(t, "lock", "alloc_inode", parent, "", kind)
    /\ UNCHANGED <<systime, super_block, sb_lock, superblock_bin, inodes, inode_files,
                   file_handles, next_fs, fshist>>
    /\ UNCHANGED <<cachevars, iovars>>

\* a write() that does not wait for the holder of the lock
SuperBlockWrite_Shared(t) ==
    /\ thread[t].pc = "lock"
    /\ sb_lock' = t
    /\ thread' = [thread EXCEPT ![t].pc = "locked"]
    /\ fshist' = [fshist EXCEPT !.waited =
                      @ \/ \E u \in Threads \ {t} : thread[u].pc = "lock"]
    /\ UNCHANGED <<systime, super_block, superblock_bin, inodes, inode_files,
                   file_handles, next_fs>>
    /\ UNCHANGED <<cachevars, iovars>>

\* self.super_block.write(): the thread waits until no thread holds the lock
SuperBlockWrite(t) ==
    /\ thread[t].pc = "lock"
    /\ sb_lock = 0
    /\ sb_lock' = t
    /\ thread' = [thread EXCEPT ![t].pc = "locked"]
    /\ fshist' = [fshist EXCEPT !.waited =
                      @ \/ \E u \in Threads \ {t} : thread[u].pc = "lock"]
    /\ UNCHANGED <<systime, super_block, superblock_bin, inodes, inode_files,
                   file_handles, next_fs>>
    /\ UNCHANGED <<cachevars, iovars>>

\* SuperBlock::get_next_inode_id: let id = self.next_inode_id
ReadNextInodeId(t) ==
    /\ thread[t].pc = "locked"
    /\ thread[t].op = "get_next_inode_id"
    /\ thread' = [thread EXCEPT ![t] = [@ EXCEPT !.pc = "bump",
                                                 !.id = super_block.next_inode_id]]
    /\ UNCHANGED <<systime, super_block, sb_lock, superblock_bin, inodes, inode_files,
                   file_handles, next_fs, fshist>>
    /\ UNCHANGED <<cachevars, iovars>>

\* SuperBlock::get_next_inode_id: self.next_inode_id += 1; the id is returned and
\* the lock is dropped
BumpNextInodeId(t) ==
    /\ thread[t].pc = "bump"
    /\ thread[t].op = "get_next_inode_id"
    /\ super_block' = [super_block EXCEPT !.next_inode_id = @ + 1]
    /\ sb_lock' = 0
    /\ thread' = Left(t, FsId(thread[t].id))
    /\ fshist' = [fshist EXCEPT !.inode_ids = Append(@, thread[t].id)]
    /\ UNCHANGED <<systime, superblock_bin, inodes, inode_files, file_handles, next_fs>>
    /\ UNCHANGED <<cachevars, iovars>>

\* SuperBlock::get_next_block_id: let id = self.next_block_id
ReadNextBlockId(t) ==
    /\ thread[t].pc = "locked"
    /\ thread[t].op = "get_next_block_id"
    /\ thread' = [thread EXCEPT ![t] = [@ EXCEPT !.pc = "bump",
                                                 !.id = super_block.next_block_id]]
    /\ UNCHANGED <<systime, super_block, sb_lock, superblock_bin, inodes, inode_files,
                   file_handles, next_fs, fshist>>
    /\ UNCHANGED <<cachevars, iovars>>

\* SuperBlock::get_next_block_id: self.next_block_id += 1; the id is returned and
\* the lock is dropped
BumpNextBlockId(t) ==
    /\ thread[t].pc = "bump"
    /\ thread[t].op = "get_next_block_id"
    /\ super_block' = [super_block EXCEPT !.next_block_id = @ + 1]
    /\ sb_lock' = 0
    /\ thread' = Left(t, FsId(thread[t].id))
    /\ fshist' = [fshist EXCEPT !.block_ids = Append(@, thread[t].id)]
    /\ UNCHANGED <<systime, superblock_bin, inodes, inode_files, file_handles, next_fs>>
    /\ UNCHANGED <<cachevars, iovars>>

\* the builder that alloc_inode passes to build()
AllocBuilder(kind) ==
    IF kind = "RegularFile" THEN ino(FileAttrBuilder, super_block.next_inode_id)
    ELSE with_directory(ino(FileAttrBuilder, super_block.next_inode_id))

\* the INode that alloc_inode returns
alloc_inode(parent, kind) ==
    INode(super_block.next_inode_id, parent,
          IF kind = "RegularFile" THEN empty_file ELSE empty_directory,
          build(AllocBuilder(kind)))

Built(kind, node) ==
    [fshist EXCEPT !.inode_ids = Append(@, node.id),
                   !.builder = <<AllocBuilder(kind)>>,
                   !.built = <<node.attr>>,
                   !.allocated = <<node>>]

\* TimeFS::alloc_inode under the lock
AllocInode(t) ==
    /\ thread[t].pc = "locked"
    /\ thread[t].op = "alloc_inode"
    /\ super_block' = [super_block EXCEPT !.inode_count = @ + 1, !.next_inode_id = @ + 1]
    /\ sb_lock' = 0
    /\ thread' = Left(t, FsNode(alloc_inode(thread[t].arg, thread[t].kind)))
    /\ fshist' = Built(thread[t].kind, alloc_inode(thread[t].arg, thread[t].kind))
    /\ UNCHANGED <<systime, superblock_bin, inodes, inode_files, file_handles, next_fs>>
    /\ UNCHANGED <<cachevars, iovars>>

\* TimeFS::get_inode(id)
get_inode(id) == IF id \in DOMAIN inodes THEN FsNode(inodes[id]) ELSE NotFound(id)

\* TimeFS::get_inode_by_name(parent, name)
get_inode_by_name(parent, name) ==
    IF parent \notin DOMAIN inodes THEN NotFound(parent)
    ELSE IF get_child_id(inodes[parent], name).tag # "id"
         THEN get_child_id(inodes[parent], name)
         ELSE get_inode(get_child_id(inodes[parent], name).id)

\* a call of get_inode; it waits while a create_file holds the entry
GetInode(t, id) ==
    /\ FsCanCall(t)
    /\ ~Guarded(id)
    /\ thread' = [Entered(t, "idle", "get_inode", id, "", "none")
                    EXCEPT ![t].ret = get_inode(id)]
    /\ UNCHANGED <<systime, super_block, sb_lock, superblock_bin, inodes, inode_files,
                   file_handles, next_fs, fshist>>
    /\ UNCHANGED <<cachevars, iovars>>

\* a call of get_inode_by_name
GetInodeByName(t, parent, name) ==
    /\ FsCanCall(t)
    /\ ~Guarded(parent)
    /\ thread' = [Entered(t, "idle", "get_inode_by_name", parent, name, "none")
                    EXCEPT ![t].ret = get_inode_by_name(parent, name)]
    /\ UNCHANGED <<systime, super_block, sb_lock, superblock_bin, inodes, inode_files,
                   file_handles, next_fs, fshist>>
    /\ UNCHANGED <<cachevars, iovars>>

\* TimeFS::create_file(parent, name, flags) is called
CreateFileCall(t, parent, name) ==
    /\ FsCanCall(t)
    /\ thread' = Entered(t, "create", "create_file", parent, name, "RegularFile")
    /\ fshist' = [fshist EXCEPT !.create = <<>>]
    /\ UNCHANGED <<systime, super_block, sb_lock, superblock_bin, inodes, inode_files,
                   file_handles, next_fs>>
    /\ UNCHANGED <<cachevars, iovars>>

\* create_file from get_inode_mut(parent) to its first return.  The RefMut of the
\* parent is held to the end of create_file; DashMap::get of the child on the shard
\* of the parent waits for that RefMut for ever.  The shard of a key depends on
\* the random state of the map.
CreateFileLookup(t) ==
    /\ thread[t].pc = "create"
    /\ ~Guarded(thread[t].arg)
    /\ \E same \in BOOLEAN :
         LET parent == thread[t].arg
             name == thread[t].name
             child == IF parent \in DOMAIN inodes
                      THEN get_child_id(inodes[parent], name)
                      ELSE NotFound(parent)
             before == [fshist EXCEPT !.create =
                           <<[thread |-> t, inodes |-> inodes, super_block |-> super_block,
                              file_handles |-> file_handles, next_fs |-> next_fs]>>]
         IN  IF child.tag # "id"
             THEN /\ thread' = Left(t, child)
                  /\ fshist' = before
                  /\ UNCHANGED <<file_handles, next_fs>>
             ELSE IF same \/ child.id = parent
             THEN /\ thread' = [thread EXCEPT ![t] = [@ EXCEPT !.pc = "deadlock",
                                                              !.guard = parent]]
                  /\ fshist' = before
                  /\ UNCHANGED <<file_handles, next_fs>>
             ELSE IF child.id \in DOMAIN inodes
             THEN /\ thread' = Left(t, FsCreated(inodes[child.id].attr, next_fs))
                  /\ file_handles' = Insert(file_handles, next_fs, child.id)
                  /\ next_fs' = next_fs + 1
                  /\ fshist' = before
             ELSE /\ thread' = [thread EXCEPT ![t] = [@ EXCEPT !.pc = "lock",
                                                              !.id = child.id,
                                                              !.guard = parent]]
                  /\ fshist' = before
                  /\ UNCHANGED <<file_handles, next_fs>>
    /\ UNCHANGED <<systime, super_block, sb_lock, superblock_bin, inodes, inode_files>>
    /\ UNCHANGED <<cachevars, iovars>>

\* create_file from alloc_inode to Ok((attr, inode_id)): the new inode is inserted
\* under the id that the directory entry names
CreateFileInsert(t) ==
    /\ thread[t].pc = "locked"
    /\ thread[t].op = "create_file"
    /\ super_block' = [super_block EXCEPT !.inode_count = @ + 1, !.next_inode_id = @ + 1]
    /\ sb_lock' = 0
    /\ inodes' = Insert(inodes, thread[t].id, alloc_inode(thread[t].arg, "RegularFile"))
    /\ thread' = Left(t, FsCreated(alloc_inode(thread[t].arg, "RegularFile").attr,
                                   super_block.next_inode_id))
    /\ fshist' = Built("RegularFile", alloc_inode(thread[t].arg, "RegularFile"))
    /\ UNCHANGED <<systime, superblock_bin, inode_files, file_handles, next_fs>>
    /\ UNCHANGED <<cachevars, iovars>>

\* the process ends, by a clean stop or a crash, and TimeFS::new opens the same
\* storage path: superblock.bin exists and is read, the root inode is created and
\* written, the table holds the root only
Restart ==
    /\ fshist.restarts < MaxRestarts
    /\ super_block' = superblock_bin
    /\ sb_lock' = 0
    /\ inodes' = [i \in {FUSE_ROOT_ID} |-> create_root_inode(systime)]
    /\ inode_files' = Insert(inode_files, FUSE_ROOT_ID, create_root_inode(systime))
    /\ file_handles' = [h \in {} |-> 0]
    /\ next_fs' = 1
    /\ thread' = [t \in Threads |-> [IdleThread EXCEPT !.calls = thread[t].calls]]
    /\ fshist' = [fshist EXCEPT !.restarts = @ + 1]
    /\ UNCHANGED <<systime, superblock_bin>>
    /\ UNCHANGED <<cachevars, iovars>>

\* the system time passes
SysTick ==
    /\ systime < MaxSysTime
    /\ systime' = systime + 1
    /\ UNCHANGED <<super_block, sb_lock, superblock_bin, inodes, inode_files,
                   file_handles, next_fs, thread, fshist>>
    /\ UNCHANGED <<cachevars, iovars>>

\* ------------------------------------------------------------- write_block_to_disk
\* a task enters write_block_to_disk(path of b, data); the data of the calls are
\* told apart by their number
WriteCall(w, b) ==
    LET n == Cardinality(UNION {passed[k] : k \in Blocks}) + 1 IN
    /\ writer[w].pc = "idle"
    /\ Cardinality(UNION {passed[k] : k \in Blocks}) < MaxWrites
    /\ writer' = [writer EXCEPT ![w] = [IdleWriter EXCEPT !.pc = "create", !.block = b,
                                                          !.data = Block(n)]]
    /\ passed' = [passed EXCEPT ![b] = @ \cup {Block(n)}]
    /\ UNCHANGED <<file_data, tmp_paths, bin_paths>>
    /\ UNCHANGED <<cachevars, fsvars>>

\* line 341, File::create(&tmp_path): the file that block_<id>.tmp names is
\* truncated, or a new empty file is created under that name
TmpCreate(w) ==
    LET b == writer[w].block
        f == IF tmp_paths[b] # 0 THEN tmp_paths[b] ELSE Len(file_data) + 1 IN
    /\ writer[w].pc = "create"
    /\ file_data' = [i \in 1..(IF tmp_paths[b] # 0 THEN Len(file_data) ELSE f) |->
                        IF i = f THEN <<>> ELSE file_data[i]]
    /\ tmp_paths' = [tmp_paths EXCEPT ![b] = f]
    /\ writer' = [writer EXCEPT ![w] = [@ EXCEPT !.pc = "write", !.fd = f, !.off = 0]]
    /\ UNCHANGED <<bin_paths, passed>>
    /\ block_files' = BinFiles(file_data', bin_paths)
    /\ UNCHANGED <<clock, blocks, dirty_tracer, operations, client, task, consumer,
                   sweep, evicting, hist>>
    /\ UNCHANGED fsvars

\* line 343, file.write_all(data): one byte goes to the open file at the offset
\* of the descriptor; after the last byte flush and sync_all follow
WriteAll(w) ==
    LET f == writer[w].fd
        off == writer[w].off IN
    /\ writer[w].pc = "write"
    /\ file_data' = [file_data EXCEPT ![f] = WriteAt(@, off, writer[w].data[off + 1])]
    /\ writer' = [writer EXCEPT ![w] =
            [@ EXCEPT !.off = off + 1,
                      !.pc = IF off + 1 = Len(writer[w].data) THEN "rename" ELSE "write"]]
    /\ UNCHANGED <<tmp_paths, bin_paths, passed>>
    /\ block_files' = BinFiles(file_data', bin_paths)
    /\ UNCHANGED <<clock, blocks, dirty_tracer, operations, client, task, consumer,
                   sweep, evicting, hist>>
    /\ UNCHANGED fsvars

\* lines 347-350, drop(file) and rename(tmp_path, path): block_<id>.bin names the
\* file that block_<id>.tmp names and the temporary name is gone; without a file
\* of that name rename fails and write_block_to_disk returns the error
TmpRename(w) ==
    LET b == writer[w].block IN
    /\ writer[w].pc = "rename"
    /\ IF tmp_paths[b] # 0
       THEN /\ bin_paths' = [bin_paths EXCEPT ![b] = tmp_paths[b]]
            /\ tmp_paths' = [tmp_paths EXCEPT ![b] = 0]
            /\ writer' = [writer EXCEPT ![w] = [IdleWriter EXCEPT !.ret = RetOk]]
       ELSE /\ UNCHANGED <<bin_paths, tmp_paths>>
            /\ writer' = [writer EXCEPT ![w] = [IdleWriter EXCEPT !.ret = RetErr]]
    /\ UNCHANGED <<file_data, passed>>
    /\ block_files' = BinFiles(file_data, bin_paths')
    /\ UNCHANGED <<clock, blocks, dirty_tracer, operations, client, task, consumer,
                   sweep, evicting, hist>>
    /\ UNCHANGED fsvars

\* ------------------------------------------------------------- specifications
SweepTasks ==
    \/ \E s \in Slots : TaskWrite(s)
    \/ \E s \in Slots : TaskGet(s)
    \/ \E s \in Slots : TaskInsert(s)
    \/ \E s \in Slots : TaskNotify(s)

Tasks ==
    \/ SweepTasks
    \/ \E s \in Slots : TaskUntrack(s)

Draining ==
    \/ \E b \in Blocks : ConsumerDrain(b)
    \/ ConsumerJoin
    \/ ConsumerExit

Sweeping ==
    \/ SweepTick
    \/ SweepRemove
    \/ \E b \in Blocks : SweepScan(b)
    \/ Tick

Evicting ==
    \/ \E h \in Hosts, b \in Blocks : EvictRemove(h, b)
    \/ EvictNotify

\* one foreground caller, every public operation, the whole background
Next ==
    \/ \E b \in Blocks : UpdateCall(1, b)
    \/ UpdateInsert(1)
    \/ UpdateNotify(1)
    \/ UpdateSend(1)
    \/ \E b \in Blocks : GetCall(1, b)
    \/ GetRead(1)
    \/ GetInsert(1)
    \/ GetNotify(1)
    \/ \E b \in Blocks, w \in BOOLEAN : FlushCall(1, b, w)
    \/ FlushJoin(1)
    \/ ShutdownCall(1)
    \/ ShutdownJoin(1)
    \/ Tasks
    \/ ConsumerRecv
    \/ Draining
    \/ Sweeping
    \/ Evicting

Spec == Init /\ [][Next]_vars

\* one caller that only calls update_block and shutdown; no periodic sweep
NextSeq ==
    \/ \E b \in Blocks : UpdateCall(1, b)
    \/ UpdateInsert(1)
    \/ UpdateNotify(1)
    \/ UpdateSend(1)
    \/ ShutdownCall(1)
    \/ ShutdownJoin(1)
    \/ Tasks
    \/ ConsumerRecv
    \/ Draining
    \/ Evicting

SpecSeq == InitWith(MaxSeqCalls, MaxSeqUpdates) /\ [][NextSeq]_vars

\* callers that only call update_block, the consumer and the periodic sweep; no
\* capacity eviction takes place
NextUpd ==
    \/ \E c \in Clients, b \in Blocks : UpdateCall(c, b)
    \/ \E c \in Clients : UpdateInsert(c)
    \/ \E c \in Clients : UpdateNotify(c)
    \/ \E c \in Clients : UpdateSend(c)
    \/ SweepTasks
    \/ ConsumerRecv
    \/ Sweeping

SpecUpd == InitWith(MaxUpdCalls, NumClients * MaxUpdCalls) /\ [][NextUpd]_vars

\* one caller of update_block and flush_block, the flush tasks with writes that
\* succeed or fail, and the consumer; no sweep, eviction or shutdown
NextFlush ==
    \/ \E b \in Blocks : UpdateCall(1, b)
    \/ UpdateInsert(1)
    \/ UpdateNotify(1)
    \/ UpdateSend(1)
    \/ \E b \in Blocks, w \in BOOLEAN : FlushCall(1, b, w)
    \/ FlushJoin(1)
    \/ Tasks
    \/ \E s \in Slots : TaskWriteFail(s)
    \/ ConsumerRecv

SpecFlush == InitWith(MaxFlushCalls, MaxFlushUpdates) /\ [][NextFlush]_vars

\* caller 1 calls get_block, with reads that succeed or fail, while caller 2
\* calls update_block; the consumer runs; no capacity eviction takes place
NextGet ==
    \/ \E b \in Blocks : UpdateCall(2, b)
    \/ UpdateInsert(2)
    \/ UpdateNotify(2)
    \/ UpdateSend(2)
    \/ \E b \in Blocks : GetCall(1, b)
    \/ GetRead(1)
    \/ GetReadFail(1)
    \/ GetInsert(1)
    \/ GetNotify(1)
    \/ ConsumerRecv

SpecGet == InitWith(MaxGetCalls, MaxGetUpdates) /\ [][NextGet]_vars

\* every caller c runs update_block(c, D) and then get_block(c), as the tasks of
\* test_concurrent_access do on their own ids, against the consumer and the
\* periodic sweep; the ids fit in the cache, so that no capacity eviction takes
\* place, and no update_block finds an entry to replace
NextOwn ==
    \/ \E c \in Clients \cap Blocks : client[c].op = "none" /\ UpdateCall(c, c)
    \/ \E c \in Clients : UpdateInsert(c)
    \/ \E c \in Clients : UpdateSend(c)
    \/ \E c \in Clients \cap Blocks : client[c].op = "update" /\ GetCall(c, c)
    \/ SweepTasks
    \/ ConsumerRecv
    \/ Sweeping

SpecOwn == InitWith(MaxOwnCalls, NumClients) /\ [][NextOwn]_vars

\* callers 1 and 2 call update_block and shutdown concurrently; the consumer, its
\* drain and the flush tasks run; no periodic sweep and no capacity eviction
NextShut ==
    \/ \E c \in {1, 2}, b \in Blocks : UpdateCall(c, b)
    \/ \E c \in {1, 2} : UpdateInsert(c)
    \/ \E c \in {1, 2} : UpdateNotify(c)
    \/ \E c \in {1, 2} : UpdateSend(c)
    \/ \E c \in {1, 2} : ShutdownCall(c)
    \/ \E c \in {1, 2} : ShutdownJoin(c)
    \/ Tasks
    \/ ConsumerRecv
    \/ Draining

SpecShut == InitWith(MaxShutCalls, MaxShutUpdates) /\ [][NextShut]_vars

\* the scheduling of the background: the consumer thread runs, the runtime of the
\* background thread runs the periodic sweep and the spawned tasks, callers finish
\* the calls they started, and time passes
Background ==
    /\ WF_vars(ConsumerRecv)
    /\ WF_vars(SweepTick \/ SweepRemove \/ \E b \in Blocks : SweepScan(b))
    /\ WF_vars(SweepTasks)
    /\ WF_vars(Tick)

Callers ==
    WF_vars(\E c \in Clients : UpdateInsert(c) \/ UpdateNotify(c) \/ UpdateSend(c))

\* one caller whose update_block calls follow each other, the consumer and the
\* periodic sweep; no capacity eviction takes place
NextLive ==
    \/ \E b \in Blocks : UpdateCall(1, b)
    \/ UpdateInsert(1)
    \/ UpdateNotify(1)
    \/ UpdateSend(1)
    \/ SweepTasks
    \/ ConsumerRecv
    \/ Sweeping

SpecLive ==
    /\ InitWith(MaxLiveCalls, MaxLiveUpdates)
    /\ [][NextLive]_vars
    /\ Background
    /\ Callers

\* caller 1 calls update_block and shutdown while caller 2 calls shutdown, against
\* the whole background: consumer, drain, periodic sweep, and tasks whose writes
\* succeed or fail; every process that can take a step eventually takes one
NextStop ==
    \/ \E b \in Blocks : UpdateCall(1, b)
    \/ UpdateInsert(1)
    \/ UpdateNotify(1)
    \/ UpdateSend(1)
    \/ \E c \in {1, 2} : ShutdownCall(c)
    \/ \E c \in {1, 2} : ShutdownJoin(c)
    \/ Tasks
    \/ \E s \in Slots : TaskWriteFail(s)
    \/ ConsumerRecv
    \/ Draining
    \/ Sweeping

FairStop ==
    /\ Background
    /\ Callers
    /\ WF_vars(\E c \in Clients : ShutdownJoin(c))
    /\ WF_vars(Draining)
    /\ WF_vars(\E s \in Slots : TaskWrite(s) \/ TaskWriteFail(s))
    /\ WF_vars(\E s \in Slots : TaskUntrack(s))

SpecStop ==
    /\ InitWith(MaxStopCalls, MaxStopUpdates)
    /\ [][NextStop]_vars
    /\ FairStop

\* a file system on an empty storage path, its block cache left alone
StoreWith(calls) == NewCache(0, 0) /\ FreshStore(calls) /\ NoWrites

\* concurrent allocations on a fresh super block, by every thread
NextAlloc ==
    \E t \in Threads :
        \/ GetNextInodeIdCall(t)
        \/ GetNextBlockIdCall(t)
        \/ \E k \in {"RegularFile", "Directory"} : AllocInodeCall(t, FUSE_ROOT_ID, k)
        \/ SuperBlockWrite(t)
        \/ ReadNextInodeId(t) \/ BumpNextInodeId(t)
        \/ ReadNextBlockId(t) \/ BumpNextBlockId(t)
        \/ AllocInode(t)

SpecAlloc == StoreWith(MaxAllocCalls) /\ [][NextAlloc]_vars

\* allocations, the passing of time and restarts on the same storage path
NextRestart == NextAlloc \/ Restart \/ SysTick

SpecRestart == StoreWith(MaxRestartCalls) /\ [][NextRestart]_vars

\* create_file and the lookups on a file system opened on an empty storage path
NextFs ==
    \E t \in Threads :
        \/ \E p \in InodeIds, n \in Names : CreateFileCall(t, p, n)
        \/ CreateFileLookup(t)
        \/ \E i \in InodeIds : GetInode(t, i)
        \/ \E p \in InodeIds, n \in Names : GetInodeByName(t, p, n)

SpecFs == StoreWith(MaxFsCalls) /\ [][NextFs]_vars

\* The tables that create_file and the lookups are called on.  No method of TimeFS
\* adds a directory entry, so the tables with entries are inputs: the root built
\* by INode::with_directory_entries, whose names lead to a file, to an empty
\* directory or to an id that the table does not hold.
FileId == FUSE_ROOT_ID + 1
DirId == FUSE_ROOT_ID + 2

Table(entries, present) ==
    [i \in {FUSE_ROOT_ID} \cup present |->
        IF i = FUSE_ROOT_ID
        THEN with_directory_entries(FUSE_ROOT_ID, FUSE_ROOT_ID,
                                    create_root_inode(0).attr, entries)
        ELSE IF i = FileId
        THEN INode(FileId, FUSE_ROOT_ID, empty_file, build(ino(FileAttrBuilder, FileId)))
        ELSE INode(DirId, FUSE_ROOT_ID, empty_directory,
                   build(with_directory(ino(FileAttrBuilder, DirId))))]

\* a file system whose table is one of the inputs; the ids of the table are in use
InitTable ==
    /\ NewCache(0, 0)
    /\ systime = 0
    /\ super_block = [SuperBlockNew EXCEPT !.next_inode_id = DirId + 1]
    /\ sb_lock = 0
    /\ superblock_bin = SuperBlockNew
    /\ inodes \in {Table(e, p) : e \in UNION {[S -> {FileId, DirId}] : S \in SUBSET Names},
                                  p \in SUBSET {FileId, DirId}}
    /\ inode_files = [i \in {FUSE_ROOT_ID} |-> create_root_inode(0)]
    /\ file_handles = [h \in {} |-> 0]
    /\ next_fs = 1
    /\ thread = [t \in Threads |-> [IdleThread EXCEPT !.calls = MaxTableCalls]]
    /\ fshist = NoHistory
    /\ NoWrites

\* create_file and the lookups on the input tables
NextTable ==
    \E t \in Threads :
        \/ \E p \in InodeIds, n \in Names : CreateFileCall(t, p, n)
        \/ CreateFileLookup(t)
        \/ SuperBlockWrite(t)
        \/ CreateFileInsert(t)
        \/ \E i \in InodeIds : GetInode(t, i)
        \/ \E p \in InodeIds, n \in Names : GetInodeByName(t, p, n)

SpecTable == InitTable /\ [][NextTable]_vars

\* the tasks that write block files, each step of write_block_to_disk on its own
NextWrite ==
    \E w \in Writers :
        \/ \E b \in Blocks : WriteCall(w, b)
        \/ TmpCreate(w)
        \/ WriteAll(w)
        \/ TmpRename(w)

SpecWrite == StoreWith(0) /\ [][NextWrite]_vars

\* ------------------------------------------------------------- properties
\* the last update_block of b has returned, and b was not evicted since
Settled(b) == hist.last[b] # 0 /\ hist.returned[b] /\ ~hist.evicted[b]

\* client c is back from a call of op
Returned(c, op) == client[c].pc = "idle" /\ client[c].op = op

\* C1: read-your-write.  A get_block(b) that follows the return of the last
\* update_block(b, D), with b not evicted, returns D, whatever the background
\* tasks on b do in between.
C1_ReadYourWrite ==
    \A c \in Clients :
        (Returned(c, "get") /\ Settled(client[c].block))
            => client[c].ret = RetBytes(Bytes(hist.last[client[c].block]))

\* the bytes of file b are those of the last update_block of b
OnDisk(b) == b \in DOMAIN block_files /\ block_files[b] = Bytes(hist.last[b])

\* C3: durability on shutdown in every interleaving.  When shutdown has returned Ok,
\* every cached block with an update_block completed before the call of shutdown
\* has the bytes of the last such update in its file.
C3_ShutdownDurable ==
    \A c \in Clients :
        (Returned(c, "shutdown") /\ client[c].ret = RetOk)
            => \A b \in DOMAIN blocks :
                   hist.sdLast[b] # 0 =>
                       /\ b \in DOMAIN block_files
                       /\ block_files[b] = Bytes(hist.sdLast[b])

\* C4: last-write-wins.  When flush_block(b, wait=true) has returned true after the
\* return of the last update_block(b, D2), the file of b holds D2.
C4_LastWriteWins ==
    \A c \in Clients :
        (/\ Returned(c, "flush")
         /\ client[c].wait
         /\ client[c].ret = RetBool(TRUE)
         /\ hist.returned[client[c].block])
            => OnDisk(client[c].block)

\* task s, which held bytes of b older than the last update_block of b, ends in
\* this step, that update has returned, and its bytes are not in the file of b
EndsStale(s, b) ==
    /\ task[s].block = b
    /\ task[s].pc \notin {"free", "done"}
    /\ task'[s].pc \in {"free", "done"}
    /\ consumer'.pc = consumer.pc
    /\ task[s].data # Bytes(hist.last[b])
    /\ Settled(b)
    /\ ~(b \in DOMAIN block_files' /\ block_files'[b] = Bytes(hist.last[b]))

\* MarkDirty(b, t) is in the channel
Queued(b, t) == \E i \in 1..Len(operations) : operations[i] = MarkDirty(b, t)

\* C5: a re-dirtying during a flush is not lost.  When a flush task that read an
\* earlier value of b ends after update_block(b, D2) has completed, (a) the entry
\* of b holds D2 with dirty = true and (b) b is in the tracker with the time of
\* that update, or its MarkDirty is still in the channel.
C5_RedirtyKept ==
    [][\A s \in Slots, b \in Blocks :
          EndsStale(s, b) =>
              /\ b \in DOMAIN blocks'
              /\ blocks'[b].data = Bytes(hist.last[b])
              /\ blocks'[b].dirty
              /\ \/ b \in DOMAIN dirty_tracer' /\ dirty_tracer'[b] = hist.lastTs[b]
                 \/ Queued(b, hist.lastTs[b])]_vars

\* C6: the meaning of the dirty flag.  Every entry with dirty = false has the
\* bytes of its file, an absent file counting as empty.
C6_CleanMatchesDisk ==
    \A b \in DOMAIN blocks : ~blocks[b].dirty => blocks[b].data = ReadFile(b)

\* C7: the tracker invariant.  An id is in the Dirty Tracker if and only if the
\* cache holds an entry for it with dirty = true.
C7_TrackerIffDirty ==
    \A b \in Blocks : (b \in DOMAIN dirty_tracer) <=> Dirty(b)

\* C8: eviction durability.  After update_block calls on more ids than the cache
\* holds, each optionally followed by flush_block(id, false), get_block of a
\* written id returns the bytes last written for it, cached or reloaded.
C8_EvictionDurable ==
    \A c \in Clients :
        (/\ Returned(c, "get")
         /\ hist.plain
         /\ Cardinality({b \in Blocks : hist.last[b] # 0}) > Capacity
         /\ hist.last[client[c].block] # 0
         /\ hist.returned[client[c].block])
            => client[c].ret = RetBytes(Bytes(hist.last[client[c].block]))

\* C9: the eviction of a clean entry performs no disk I/O.  When the listener has
\* run for an evicted entry with dirty = false, the files are as before.
C9_CleanEvictionNoIO ==
    [][(evicting # NoEvict /\ ~evicting.dirty /\ evicting' = NoEvict)
          => block_files' = block_files]_vars

\* C2: durability on shutdown, one sequential caller, no sweep.  When shutdown has
\* returned Ok, the file of every updated block holds the bytes of its last
\* update_block, which is what a fresh cache reads; and from the moment the drain
\* has collected the ids, every updated block is in the tracker or in its file.
C2_SeqDurable ==
    /\ \A c \in Clients :
          (Returned(c, "shutdown") /\ client[c].ret = RetOk)
              => \A b \in Blocks :
                     hist.sdLast[b] # 0 => ReadFile(b) = Bytes(hist.sdLast[b])
    /\ consumer.pc \in {"drain", "drain_wait"}
          => \A b \in Blocks :
                 hist.sdLast[b] # 0 =>
                     \/ b \in DOMAIN dirty_tracer
                     \/ b \in consumer.todo
                     \/ ReadFile(b) = Bytes(hist.sdLast[b])

\* shutdown has returned Ok after update_block calls on every block, one of them
\* was evicted and one is still cached, and every file holds the last bytes
C2_Witness ==
    /\ Returned(1, "shutdown")
    /\ client[1].ret = RetOk
    /\ \E b \in Blocks : hist.evicted[b]
    /\ DOMAIN blocks # {}
    /\ \A b \in Blocks : hist.sdLast[b] # 0 /\ ReadFile(b) = Bytes(hist.sdLast[b])

\* C10: write-back delay.  Without flush_block, eviction and shutdown, the periodic
\* sweep does not write the bytes of the last update_block(b, D) to the file of b
\* before flush_interval has elapsed since that update, also when update_block
\* calls on b overlap.
C10_WriteBackDelay ==
    [][\A s \in Slots, b \in Blocks :
          (/\ task[s].kind = "sweep"
           /\ task[s].block = b
           /\ task[s].pc = "write"
           /\ task'[s].pc = "get"
           /\ task[s].data = Bytes(hist.last[b]))
              => clock >= hist.lastTs[b] + FlushInterval]_vars

\* every update_block of the run has been issued and the last one of b has returned,
\* early enough for its flush_interval to elapse within the modelled time
LastUpdateDone(b) ==
    /\ hist.updates = hist.quota
    /\ Settled(b)
    /\ hist.lastTs[b] + FlushInterval <= MaxTime

\* the file of b holds the last bytes written and the entry of b is clean
CleanOnDisk(b) == OnDisk(b) /\ b \in DOMAIN blocks /\ ~blocks[b].dirty

\* C11: write-back liveness.  Without flush_block, shutdown and eviction, once the
\* last update_block(b, D) has returned, eventually the file of b holds D and the
\* entry of b is clean.
C11_WriteBackLive ==
    \A b \in Blocks : LastUpdateDone(b) ~> CleanOnDisk(b)

\* caller c returns in this step from flush_block(b, wait=true), which found a
\* dirty entry and spawned the task in client[c].slot with its bytes
FlushReturns(c, b) ==
    /\ client[c].pc = "flush_wait"
    /\ client[c].block = b
    /\ client'[c].pc = "idle"

\* caller c has returned from flush_block(b, wait=true) with true and has made no
\* call since
Flushed(c, b) ==
    /\ Returned(c, "flush")
    /\ client[c].block = b
    /\ client[c].wait
    /\ client[c].ret = RetBool(TRUE)

\* C12: post-condition of flush_block(b, wait=true) on a dirty entry with bytes D,
\* with no update_block of b after the call starts and b not evicted: on return the
\* result is true, the file of b holds D, the entry of b is (D, dirty = false) and
\* b is not in the tracker; and b does not enter the tracker afterwards while the
\* caller makes no further call.
C12_FlushPost ==
    [][\A c \in Clients, b \in Blocks :
          /\ (FlushReturns(c, b) /\ ~hist.evicted[b]) =>
                 /\ client'[c].ret = RetBool(TRUE)
                 /\ b \in DOMAIN block_files'
                 /\ block_files'[b] = task[client[c].slot].data
                 /\ b \in DOMAIN blocks'
                 /\ blocks'[b].data = task[client[c].slot].data
                 /\ ~blocks'[b].dirty
                 /\ b \notin DOMAIN dirty_tracer'
          /\ (Flushed(c, b) /\ client'[c] = client[c] /\ b \notin DOMAIN dirty_tracer)
                 => b \notin DOMAIN dirty_tracer']_vars

\* caller c enters flush_block(b, wait) in this step
FlushStarts(c, b) ==
    /\ client[c].pc = "idle"
    /\ client'[c].op = "flush"
    /\ client'[c].block = b
    /\ client'[c].calls = client[c].calls - 1

C14_FlushFailure ==
    [][\A c \in Clients, b \in Blocks :
          (FlushReturns(c, b) /\ task[client[c].slot].pc = "failed") =>
              /\ client'[c].ret = RetErr
              /\ b \in DOMAIN blocks' /\ blocks'[b].dirty
              /\ b \in DOMAIN dirty_tracer => b \in DOMAIN dirty_tracer']_vars

\* caller c enters get_block(b) in this step
GetStarts(c, b) ==
    /\ client[c].pc = "idle"
    /\ client'[c].op = "get"
    /\ client'[c].block = b
    /\ client'[c].calls = client[c].calls - 1

SameEntry(k) ==
    /\ k \in DOMAIN blocks <=> k \in DOMAIN blocks'
    /\ k \in DOMAIN blocks => blocks'[k] = blocks[k]

\* C16: independence across block ids.  With every caller c running
\* update_block(c, D_c) and then get_block(c) on its own id, within the capacity,
\* every get_block returns the caller's own D_c in every interleaving with the
\* other callers, the consumer and the sweep; and a step of a caller or of a task
\* on one id leaves the cache entries of the other ids as they are.
C16_Independence ==
    [][/\ \A c \in Clients :
              (client'[c].pc = "idle" /\ client'[c].op = "get")
                  => client'[c].ret = RetBytes(Bytes(hist.last[client'[c].block]))
       /\ \A c \in Clients, k \in Blocks :
              (client'[c] # client[c] /\ k # client'[c].block) => SameEntry(k)
       /\ \A s \in Slots, k \in Blocks :
              (task'[s] # task[s] /\ task[s].pc # "free" /\ k # task[s].block)
                  => SameEntry(k)]_vars

\* every caller has read back its own bytes, all ids are cached together, and the
\* sweep has written one of them
C16_Witness ==
    /\ \A c \in Clients :
           /\ Returned(c, "get")
           /\ client[c].block = c
           /\ client[c].ret = RetBytes(Bytes(hist.last[c]))
           /\ hist.last[c] # 0
    /\ Clients \subseteq DOMAIN blocks
    /\ \E b \in Blocks : OnDisk(b) /\ ~blocks[b].dirty

\* the consumer takes the command at the head of the channel in this step
Handles ==
    /\ consumer.pc = "recv"
    /\ operations # <<>>
    /\ operations' = Tail(operations)

\* a command is sent in this step: it is put behind those in the channel
Sends ==
    /\ Len(operations') = Len(operations) + 1
    /\ SubSeq(operations', 1, Len(operations)) = operations

\* the tracker gets a new id or a new time for an id in this step
TrackerGains ==
    \E b \in DOMAIN dirty_tracer' :
        b \notin DOMAIN dirty_tracer \/ dirty_tracer'[b] # dirty_tracer[b]

\* C17: command ordering.  Commands enter the channel at its tail and leave it at
\* its head, one per step of the consumer, which handles the one it takes: MarkDirty
\* sets the tracker entry, ShutDown starts the drain.  The tracker gets entries
\* in no other way.  After ShutDown the consumer never receives again: it takes no
\* further command and a MarkDirty sent later never changes the tracker.
C17_CommandOrder ==
    [][/\ operations' # operations =>
              \/ Sends
              \/ Handles
              \/ consumer.pc # "exited" /\ consumer'.pc = "exited" /\ operations' = <<>>
       /\ Handles =>
              /\ Head(operations).kind = "MarkDirty" =>
                     /\ dirty_tracer' = TrackerInsert(Head(operations).block,
                                                      Head(operations).ts)
                     /\ consumer' = consumer
              /\ Head(operations).kind = "ShutDown" => consumer'.pc = "drain"
       /\ TrackerGains => Handles /\ Head(operations).kind = "MarkDirty"
       /\ consumer.pc # "recv" =>
              /\ consumer'.pc # "recv"
              /\ ~Handles
              /\ ~TrackerGains]_vars

\* ShutDown has been handled, the drain is under way, and a MarkDirty sent after
\* ShutDown is in the channel for an id that the tracker does not hold
C17_Witness ==
    /\ consumer.pc \in {"drain", "drain_wait"}
    /\ \E i \in 1..Len(operations) :
           /\ operations[i].kind = "MarkDirty"
           /\ operations[i].block \notin DOMAIN dirty_tracer
    /\ dirty_tracer # << >>

ShutdownStarts(c) ==
    /\ client[c].pc = "idle"
    /\ client'[c].op = "shutdown"
    /\ client'[c].calls = client[c].calls - 1

\* C19: shutdown is idempotent-safe.  A call of shutdown made after a call of
\* shutdown has returned Ok does not fail, and leaves the files, the cache and the
\* tracker as they are.
C19_ShutdownTwice ==
    [][\A c \in Clients :
          (/\ ShutdownStarts(c)
           /\ \E d \in Clients : Returned(d, "shutdown") /\ client[d].ret = RetOk) =>
              /\ client'[c].ret # RetErr
              /\ UNCHANGED <<block_files, blocks, dirty_tracer>>]_vars

\* caller c is inside update_block: called and not yet returned
InUpdate(c) == client[c].op = "update" /\ client[c].pc # "idle"

\* C20: update_block never waits on disk.  Between the call and the return of
\* update_block no step of the calling task changes a block file: neither the
\* insert that replaces an entry nor an eviction carried out by the caller runs
\* the listener's write on the update_block path.
C20_UpdateNoDisk ==
    [][\A c \in Clients :
          /\ (InUpdate(c) /\ client'[c] # client[c]) => block_files' = block_files
          /\ (InUpdate(c) /\ Hosting(<<"client", c>>) /\ evicting' = NoEvict)
                 => block_files' = block_files]_vars

\* the values of a sequence
Range(seq) == {seq[i] : i \in 1..Len(seq)}

\* C21: on a fresh super block, under every interleaving of the threads, the n
\* inode ids handed out so far by get_next_inode_id and alloc_inode are n distinct
\* ids that fill the range from FUSE_ROOT_ID + 1 without a gap, the m block ids
\* handed out by get_next_block_id are exactly 1..m, each counter stands one
\* above the ids it has handed out, and the root id is never handed out.
C21_AllocationUnique ==
    /\ Range(fshist.inode_ids) =
          (FUSE_ROOT_ID + 1)..(FUSE_ROOT_ID + Len(fshist.inode_ids))
    /\ Range(fshist.block_ids) = 1..Len(fshist.block_ids)
    /\ super_block.next_inode_id = FUSE_ROOT_ID + 1 + Len(fshist.inode_ids)
    /\ super_block.next_block_id = 1 + Len(fshist.block_ids)
    /\ FUSE_ROOT_ID \notin Range(fshist.inode_ids)

\* two calls that asked for the lock of the super block at the same time have
\* both returned their inode ids
C21_Witness == fshist.waited /\ Len(fshist.inode_ids) >= 2

\* C22: across restarts on the same storage path no inode id and no block id is
\* handed out twice.
C22_NoReuse ==
    /\ Cardinality(Range(fshist.inode_ids)) = Len(fshist.inode_ids)
    /\ Cardinality(Range(fshist.block_ids)) = Len(fshist.block_ids)

C24_NewNameCreates ==
    [][\A t \in Threads :
          (/\ thread[t].pc = "create"
           /\ thread'[t].pc # "create"
           /\ thread[t].arg \in DOMAIN inodes
           /\ inodes[thread[t].arg].data.kind = "Directory"
           /\ thread[t].name \notin DOMAIN inodes[thread[t].arg].data.entries)
          => /\ thread'[t].ret.tag = "created"
             /\ thread'[t].ret.id = super_block.next_inode_id
             /\ super_block'.next_inode_id = super_block.next_inode_id + 1
             /\ thread'[t].ret.id \in DOMAIN inodes'
             /\ inodes'[thread'[t].ret.id].id = thread'[t].ret.id
             /\ inodes'[thread'[t].ret.id].parent = thread[t].arg
             /\ inodes'[thread'[t].ret.id].data.kind = "File"
             /\ thread[t].name \in DOMAIN inodes'[thread[t].arg].data.entries
             /\ inodes'[thread[t].arg].data.entries[thread[t].name] = thread'[t].ret.id]_vars
C26_FailureFatal ==
    [][\A c \in Clients :
          (/\ client[c].pc = "sd_join"
           /\ client'[c].pc = "idle"
           /\ client'[c].ret = RetOk)
          => \A b \in DOMAIN blocks :
                (/\ hist.failed[b] = <<blocks[b].data>>
                 /\ blocks[b].dirty
                 /\ ReadFile(b) # blocks[b].data)
                => \/ b \in DOMAIN dirty_tracer
                   \/ \E i \in 1..Len(operations) : operations[i].block = b]_vars

\* C27: block files are atomic.  In every state, so after a crash between any two
\* steps of write_block_to_disk and with two tasks writing the same block id
\* through the same temporary path, block_<id>.bin is absent or holds exactly one
\* complete byte sequence that was passed to a write of the id.
C27_AtomicBlockFiles ==
    \A b \in DOMAIN block_files : block_files[b] \in passed[b]

\* C28: inode records survive restarts.  TimeFS::new on an existing store leaves
\* every inode file as it is, and the root inode in memory after the opening is
\* the root record that was on disk, with its entries and attributes.
C28_InodesSurvive ==
    [][fshist'.restarts # fshist.restarts =>
          /\ inode_files' = inode_files
          /\ inodes'[FUSE_ROOT_ID] = inode_files[FUSE_ROOT_ID]]_vars

\* C29: build() returns the size and blocks that the builder tracks, so every
\* inode that alloc_inode has produced has attr.size = 0 and attr.blocks = 0.
C29_AttrCarriesSize ==
    /\ \A i \in 1..Len(fshist.built) :
          /\ fshist.built[i].size = fshist.builder[i].size
          /\ fshist.built[i].blocks = fshist.builder[i].blocks
    /\ \A i \in 1..Len(fshist.allocated) :
          /\ fshist.allocated[i].attr.size = 0
          /\ fshist.allocated[i].attr.blocks = 0

\* C30: a cache-miss load does not clobber a concurrent write.  When
\* update_block(b, D) has completed between the lookup of get_block(b), which
\* found no entry, and the insert of get_block, so that the entry of b holds D
\* and is dirty, the insert leaves the entry of b holding D with dirty = true.
C30_MissKeepsWrite ==
    [][\A c \in Clients, b \in DOMAIN blocks :
          (/\ client[c].pc = "get_insert"
           /\ client'[c].pc # "get_insert"
           /\ client[c].block = b
           /\ hist.returned[b]
           /\ blocks[b].dirty
           /\ blocks[b].data = Bytes(hist.last[b]))
          => /\ b \in DOMAIN blocks'
             /\ blocks'[b].data = blocks[b].data
             /\ blocks'[b].dirty]_vars

\* C31: update_block is all-or-nothing on error.  When update_block(b, D) returns
\* an error, the send having failed because the background consumer has exited
\* after ShutDown, the entry of b is the one from before the call: it does not
\* hold D, the bytes that only this call passed, and the cache keeps no dirty
\* entry of b that has no MarkDirty in the channel and no record in the tracker.
C31_UpdateAllOrNothing ==
    [][\A c \in Clients :
          (/\ client[c].pc = "upd_send"
           /\ client'[c].pc = "idle"
           /\ client'[c].ret = RetErr)
          => /\ ~(/\ client[c].block \in DOMAIN blocks'
                  /\ blocks'[client[c].block].data = client[c].data)
             /\ (/\ client[c].block \in DOMAIN blocks'
                 /\ blocks'[client[c].block].dirty)
                => \/ client[c].block \in DOMAIN dirty_tracer'
                   \/ \E i \in 1..Len(operations') :
                         operations'[i].block = client[c].block]_vars

\* C32: the timestamp of the tracker matches the entry.  For every block b, once
\* no update_block(b, _) is under way and every MarkDirty of b has been consumed,
\* the timestamp that the tracker holds for b equals the last_modified of the
\* dirty entry that the cache holds for b.
C32_TrackerTimestamp ==
    \A b \in DOMAIN dirty_tracer \cap DOMAIN blocks :
        (/\ blocks[b].dirty
         /\ \A c \in Clients : client[c].pc = "idle"
         /\ \A i \in 1..Len(operations) : operations[i].block # b)
        => dirty_tracer[b] = blocks[b].last_modified
====
